---- MODULE Spec2Model ----
(***************************************************************************)
(* Model of packages/cli/src/lib/index.ts: the file helpers (writeFile,    *)
(* deleteFile, existsAnyExtensionSync), the Listr task lists built from a  *)
(* files map (writeFilesTask, deleteFilesTask, cleanupEmptyDirsTask) and   *)
(* the routes file patchers (addRoutesToRouterTask,                        *)
(* removeRoutesFromRouterTask).                                            *)
(*                                                                         *)
(* A string is a sequence of one-character strings; a file system is a set *)
(* of directories and a function from files to contents, both keyed by the *)
(* resolved path [abs, segs].  The routes file is a sequence of lexemes.   *)
(***************************************************************************)
EXTENDS Integers, Sequences, FiniteSets, TLC

VARIABLES
    dirs,               \* file system: the directories that exist
    files,              \* file system: file -> contents
    preDirs,            \* dirs before the last task ran
    preFiles,           \* files before the last task ran
    keys,               \* Object.keys(files) of the task list, in order
    vals,               \* the contents, parallel to keys
    overwriteExisting,  \* options.overwriteExisting
    idx,                \* the next per-file task of the list
    status,             \* "running", "failed" (a task threw) or "done"
    last,               \* what the last task did
    cdirs,              \* uniqueDirs of cleanupEmptyDirsTask, once built
    cidx,               \* the next cleanup sub-task
    content,            \* the routes file
    preContent,         \* the routes file before the last patch
    arr,                \* the caller's routes array (reverse() mutates it)
    given,              \* the array's elements when the last patch was called
    lastOp              \* the last patch

fsVars == <<dirs, files, preDirs, preFiles>>
runVars == <<keys, vals, overwriteExisting, idx, status, last, cdirs, cidx>>
routeVars == <<content, preContent, arr, given, lastOp>>
vars == <<fsVars, runVars, routeVars>>

(***************************************************************************)
(* Bounds                                                                  *)
(***************************************************************************)
MaxFiles == 2       \* keys of a files map
MaxExisting == 2    \* files on disk before a write run
MaxRoutes == 2      \* route declarations or names in one call
MaxOld == 2         \* routes already in the routes file

(***************************************************************************)
(* Strings                                                                 *)
(***************************************************************************)
Max(S) == CHOOSE x \in S : \A y \in S : y <= x
Min(S) == CHOOSE x \in S : \A y \in S : x <= y

Range(s) == {s[i] : i \in 1..Len(s)}

RECURSIVE Reverse(_)
Reverse(s) == IF s = <<>> THEN <<>> ELSE Append(Reverse(Tail(s)), Head(s))

RECURSIVE Concat(_)
Concat(ss) == IF ss = <<>> THEN <<>> ELSE Head(ss) \o Concat(Tail(ss))

\* the positions at which sub occurs in s
Occurrences(s, sub) ==
    {i \in 1..(Len(s) - Len(sub) + 1) : SubSeq(s, i, i + Len(sub) - 1) = sub}

\* String.prototype.indexOf, 1-based; 0 when absent
IndexOf(s, sub) ==
    IF Occurrences(s, sub) = {} THEN 0 ELSE Min(Occurrences(s, sub))

\* String.prototype.includes
Includes(s, sub) == IndexOf(s, sub) # 0

\* String.prototype.replace with a string pattern: the first occurrence only
ReplaceFirst(s, sub, rep) ==
    LET i == IndexOf(s, sub)
    IN  IF i = 0 THEN s
        ELSE SubSeq(s, 1, i - 1) \o rep \o SubSeq(s, i + Len(sub), Len(s))

\* the distinct sequences over S of length lo..hi
DistinctSeqs(S, lo, hi) ==
    {s \in UNION {[1..n -> S] : n \in lo..hi} :
        \A i, j \in 1..Len(s) : i # j => s[i] # s[j]}

(***************************************************************************)
(* path (posix)                                                            *)
(***************************************************************************)
\* the end of p without its trailing slashes
TrimEnd(p) ==
    LET nz == {i \in 1..Len(p) : p[i] # "/"}
    IN  IF nz = {} THEN 0 ELSE Max(nz)

\* path.basename
Basename(p) ==
    LET e == TrimEnd(p)
        sl == {i \in 1..e : p[i] = "/"}
    IN  IF e = 0 THEN <<>>
        ELSE SubSeq(p, (IF sl = {} THEN 0 ELSE Max(sl)) + 1, e)

\* path.dirname
Dirname(p) ==
    LET hasRoot == Len(p) > 0 /\ p[1] = "/"
        nz == {i \in 2..Len(p) : p[i] # "/"}
        sl == IF nz = {} THEN {} ELSE {i \in 2..Max(nz) : p[i] = "/"}
    IN  IF sl = {} THEN (IF hasRoot THEN <<"/">> ELSE <<".">>)
        ELSE IF hasRoot /\ Max(sl) = 2 THEN <<"/", "/">>
        ELSE SubSeq(p, 1, Max(sl) - 1)

\* path.extname
Extname(p) ==
    LET b == Basename(p)
        dots == {i \in 1..Len(b) : b[i] = "."}
    IN  IF dots = {} \/ b = <<".", ".">> THEN <<>>
        ELSE IF Max(dots) = 1 THEN <<>>
        ELSE SubSeq(b, Max(dots), Len(b))

\* the path's segments, empty ones dropped
RECURSIVE Segs(_)
Segs(p) ==
    IF p = <<>> THEN <<>>
    ELSE IF Head(p) = "/" THEN Segs(Tail(p))
    ELSE LET sl == {i \in 1..Len(p) : p[i] = "/"}
             n == IF sl = {} THEN Len(p) ELSE Min(sl) - 1
             rest == Segs(SubSeq(p, n + 1, Len(p)))
             seg == SubSeq(p, 1, n)
         IN  IF seg = <<".">> THEN rest ELSE <<seg>> \o rest

\* what the operating system resolves p to: absolute or under the cwd
Resolve(p) == [abs |-> Len(p) > 0 /\ p[1] = "/", segs |-> Segs(p)]

Parent(k) == [abs |-> k.abs, segs |-> SubSeq(k.segs, 1, Len(k.segs) - 1)]

\* k and its ancestors below the root (or the cwd)
Chain(k) == {[abs |-> k.abs, segs |-> SubSeq(k.segs, 1, n)] : n \in 1..Len(k.segs)}

IsRoot(k) == k.segs = <<>>

(***************************************************************************)
(* fs                                                                      *)
(***************************************************************************)
Ok(d, f) == [dirs |-> d, files |-> f, err |-> "none"]
Throw(d, f, e) == [dirs |-> d, files |-> f, err |-> e]

IsDir(d, k) == IsRoot(k) \/ k \in d

\* fs.existsSync
ExistsSync(d, f, p) ==
    /\ p # <<>>
    /\ LET k == Resolve(p)
       IN  \/ IsDir(d, k)
           \/ k \in DOMAIN f /\ p[Len(p)] # "/"

\* fs.readdirSync(dir): the entries of the directory
Entries(d, f, k) == {e \in d \cup DOMAIN f : ~IsRoot(e) /\ Parent(e) = k}

\* fs.mkdirSync(p, { recursive: true })
MkdirSync(d, f, p) ==
    LET k == Resolve(p)
    IN  IF p = <<>> THEN Throw(d, f, "ENOENT")
        ELSE IF Chain(k) \cap DOMAIN f # {} THEN Throw(d, f, "ENOTDIR")
        ELSE Ok(d \cup Chain(k), f)

\* fs.writeFileSync(p, c)
WriteFileSync(d, f, p, c) ==
    LET k == Resolve(p)
    IN  IF p = <<>> THEN Throw(d, f, "ENOENT")
        ELSE IF IsDir(d, k) \/ p[Len(p)] = "/" THEN Throw(d, f, "EISDIR")
        ELSE IF ~IsDir(d, Parent(k)) THEN Throw(d, f, "ENOENT")
        ELSE Ok(d, [x \in DOMAIN f \cup {k} |-> IF x = k THEN c ELSE f[x]])

\* fs.unlinkSync(p)
UnlinkSync(d, f, p) ==
    LET k == Resolve(p)
    IN  IF k \in DOMAIN f /\ p[Len(p)] # "/"
        THEN Ok(d, [x \in DOMAIN f \ {k} |-> f[x]])
        ELSE IF IsDir(d, k) THEN Throw(d, f, "EISDIR")
        ELSE Throw(d, f, "ENOENT")

\* fs.rmdirSync(p)
RmdirSync(d, f, p) ==
    LET k == Resolve(p)
    IN  IF ~IsDir(d, k) THEN Throw(d, f, "ENOENT")
        ELSE IF IsRoot(k) THEN Throw(d, f, "EINVAL")
        ELSE IF Entries(d, f, k) # {} THEN Throw(d, f, "ENOTEMPTY")
        ELSE Ok(d \ {k}, f)

(***************************************************************************)
(* File helpers                                                            *)
(***************************************************************************)
SUPPORTED_EXTENSIONS == <<<<".", "j", "s">>, <<".", "t", "s">>, <<".", "t", "s", "x">>>>

\* the characters \w matches, among those the model's paths are spelled with
WordChars == {"a", "b", "d", "j", "k", "m", "n", "s", "t", "x", "y"}

\* file.replace(/\.\w*$/, ''): the leftmost dot followed by word characters
\* up to the end of the string is where the match starts
GetBaseFile(file) ==
    LET starts == {i \in 1..Len(file) :
                      /\ file[i] = "."
                      /\ \A j \in (i + 1)..Len(file) : file[j] \in WordChars}
    IN  IF starts = {} THEN file ELSE SubSeq(file, 1, Min(starts) - 1)

\* the forEach of deleteFile stopping at the first variant it finds
RECURSIVE UnlinkFirstVariant(_, _, _, _)
UnlinkFirstVariant(d, f, baseFile, exts) ==
    IF exts = <<>> THEN Ok(d, f)
    ELSE IF ExistsSync(d, f, baseFile \o Head(exts))
         THEN UnlinkSync(d, f, baseFile \o Head(exts))
         ELSE UnlinkFirstVariant(d, f, baseFile, Tail(exts))

\* the forEach of deleteFile: unlink each variant that exists; a throw ends it
RECURSIVE UnlinkVariants(_, _, _, _)
UnlinkVariants(d, f, baseFile, exts) ==
    IF exts = <<>> THEN Ok(d, f)
    ELSE LET fp == baseFile \o Head(exts)
         IN  IF ExistsSync(d, f, fp)
             THEN LET r == UnlinkSync(d, f, fp)
                  IN  IF r.err # "none" THEN r
                      ELSE UnlinkVariants(r.dirs, r.files, baseFile, Tail(exts))
             ELSE UnlinkVariants(d, f, baseFile, Tail(exts))

\* deleteFile removing one variant only
DeleteFileFirstOnly(d, f, file) ==
    IF Extname(file) \in Range(SUPPORTED_EXTENSIONS)
    THEN UnlinkFirstVariant(d, f, GetBaseFile(file), SUPPORTED_EXTENSIONS)
    ELSE UnlinkSync(d, f, file)

DeleteFile(d, f, file) ==
    IF Extname(file) \in Range(SUPPORTED_EXTENSIONS)
    THEN UnlinkVariants(d, f, GetBaseFile(file), SUPPORTED_EXTENSIONS)
    ELSE UnlinkSync(d, f, file)

\* existsAnyExtensionSync looking at the given path only
ExistsExactSync(d, f, file) == ExistsSync(d, f, file)

ExistsAnyExtensionSync(d, f, file) ==
    IF Extname(file) \in Range(SUPPORTED_EXTENSIONS)
    THEN \E i \in 1..Len(SUPPORTED_EXTENSIONS) :
            ExistsSync(d, f, GetBaseFile(file) \o SUPPORTED_EXTENSIONS[i])
    ELSE ExistsSync(d, f, file)

\* writeFile without its existence guard
WriteFileUnguarded(d, f, target, contents, overwrite) ==
    LET m == MkdirSync(d, f, ReplaceFirst(target, Basename(target), <<>>))
    IN  IF m.err # "none" THEN m
        ELSE WriteFileSync(m.dirs, m.files, target, contents)

WriteFile(d, f, target, contents, overwrite) ==
    IF ~overwrite /\ ExistsSync(d, f, target)
    THEN Throw(d, f, "AlreadyExists")
    ELSE LET filename == Basename(target)
             targetDir == ReplaceFirst(target, filename, <<>>)
             m == MkdirSync(d, f, targetDir)
         IN  IF m.err # "none" THEN m
             ELSE WriteFileSync(m.dirs, m.files, target, contents)

(***************************************************************************)
(* Inputs                                                                  *)
(***************************************************************************)
\* write targets: a/b, b/a, a/b/a (the base name is also a directory of the
\* path) and ab/a (the base name occurs inside a directory name)
WriteTargets ==
    { <<"a", "/", "b">>, <<"b", "/", "a">>,
      <<"a", "/", "b", "/", "a">>, <<"a", "b", "/", "a">> }

Contents == {"c1", "c2"}

\* a file system holding the files of S (with the old contents) and the
\* directories above them
DiskDirs(S) == UNION {Chain(Parent(Resolve(p))) : p \in S}
DiskFiles(S) == [k \in {Resolve(p) : p \in S} |-> "old"]

\* no file of S is a directory of another
Consistent(S) == {Resolve(p) : p \in S} \cap DiskDirs(S) = {}

NoLast == [op |-> "none", i |-> 0, file |-> <<>>, result |-> "none"]

NoRoutes ==
    /\ content = <<>>
    /\ preContent = <<>>
    /\ arr = <<>>
    /\ given = <<>>
    /\ lastOp = "none"

(***************************************************************************)
(* writeFilesTask: one task per key, run in order; a throw ends the run    *)
(***************************************************************************)
InitWrite ==
    /\ keys \in DistinctSeqs(WriteTargets, 1, MaxFiles)
    /\ vals \in [1..Len(keys) -> Contents]
    /\ overwriteExisting \in BOOLEAN
    /\ \E S \in SUBSET WriteTargets :
          /\ Cardinality(S) <= MaxExisting
          /\ Consistent(S)
          /\ dirs = DiskDirs(S)
          /\ files = DiskFiles(S)
    /\ preDirs = dirs
    /\ preFiles = files
    /\ idx = 1
    /\ status = "running"
    /\ last = NoLast
    /\ cdirs = <<>>
    /\ cidx = 0
    /\ NoRoutes

Advance(r, n) ==
    IF r.err # "none" THEN "failed" ELSE IF n THEN "done" ELSE "running"

WriteTask ==
    /\ status = "running"
    /\ idx <= Len(keys)
    /\ LET r == WriteFile(dirs, files, keys[idx], vals[idx], overwriteExisting)
       IN  /\ dirs' = r.dirs
           /\ files' = r.files
           /\ last' = [op |-> "write", i |-> idx, file |-> keys[idx],
                       result |-> IF r.err = "none" THEN "written" ELSE r.err]
           /\ status' = Advance(r, idx = Len(keys))
    /\ preDirs' = dirs
    /\ preFiles' = files
    /\ idx' = idx + 1
    /\ UNCHANGED <<keys, vals, overwriteExisting, cdirs, cidx, routeVars>>

NextWrite == WriteTask

SpecWrite == InitWrite /\ [][NextWrite]_vars

(***************************************************************************)
(* deleteFilesTask: one task per key, then the cleanup of the directories  *)
(***************************************************************************)
\* the files a delete run may find on disk: d/x.js, d/x.ts, d/x.tsx,
\* d/n.md, d/k.md, d/s/y.js, d/s/y.ts
DiskPaths ==
    { <<"d", "/", "x", ".", "j", "s">>, <<"d", "/", "x", ".", "t", "s">>,
      <<"d", "/", "x", ".", "t", "s", "x">>,
      <<"d", "/", "n", ".", "m", "d">>, <<"d", "/", "k", ".", "m", "d">>,
      <<"d", "/", "s", "/", "y", ".", "j", "s">>,
      <<"d", "/", "s", "/", "y", ".", "t", "s">> }

\* the keys a files map may hold: d/x.ts, d/x.tsx, d/n.md, d/s/y.ts
DeleteTargets ==
    { <<"d", "/", "x", ".", "t", "s">>, <<"d", "/", "x", ".", "t", "s", "x">>,
      <<"d", "/", "n", ".", "m", "d">>,
      <<"d", "/", "s", "/", "y", ".", "t", "s">> }

\* the directories a delete run may find on disk: none, d, or d and d/s
DiskDirSets ==
    { {}, Chain(Resolve(<<"d">>)), Chain(Resolve(<<"d", "/", "s">>)) }

\* [...new Set(allDirs)]: the first occurrence of each, in order
RECURSIVE Unique(_)
Unique(s) ==
    IF s = <<>> THEN <<>>
    ELSE LET init == Unique(SubSeq(s, 1, Len(s) - 1))
             x == s[Len(s)]
         IN  IF x \in Range(init) THEN init ELSE Append(init, x)

UniqueDirs(ks) == Unique([i \in 1..Len(ks) |-> Dirname(ks[i])])

\* the skip of a cleanup sub-task without its readdirSync check
CleanupSkipAbsentOnly(d, f, dir) ==
    IF ~ExistsSync(d, f, dir) THEN "Doesn't exist" ELSE "false"

\* the skip of a cleanup sub-task: a reason, or "false" to run the task
CleanupSkip(d, f, dir) ==
    IF ~ExistsSync(d, f, dir) THEN "Doesn't exist"
    ELSE IF Resolve(dir) \in DOMAIN f THEN "ENOTDIR"
    ELSE IF Cardinality(Entries(d, f, Resolve(dir))) > 0 THEN "Not empty"
    ELSE "false"

InitDelete ==
    /\ keys \in DistinctSeqs(DeleteTargets, 1, MaxFiles)
    /\ vals = [i \in 1..Len(keys) |-> "c1"]
    /\ overwriteExisting = FALSE
    /\ \E S \in SUBSET DiskPaths, D \in DiskDirSets :
          /\ DiskDirs(S) \subseteq D
          /\ dirs = D
          /\ files = DiskFiles(S)
    /\ preDirs = dirs
    /\ preFiles = files
    /\ idx = 1
    /\ status = "running"
    /\ last = NoLast
    /\ cdirs = <<>>
    /\ cidx = 0
    /\ NoRoutes

\* a per-file task: skipped when no variant exists, else deleteFile
DeleteTask ==
    /\ status = "running"
    /\ idx <= Len(keys)
    /\ LET file == keys[idx]
           skip == ~ExistsAnyExtensionSync(dirs, files, file)
           r == IF skip THEN Ok(dirs, files) ELSE DeleteFile(dirs, files, file)
       IN  /\ dirs' = r.dirs
           /\ files' = r.files
           /\ last' = [op |-> "delete", i |-> idx, file |-> file,
                       result |-> IF skip THEN "skipped"
                                  ELSE IF r.err = "none" THEN "deleted"
                                  ELSE r.err]
           /\ status' = Advance(r, FALSE)
    /\ preDirs' = dirs
    /\ preFiles' = files
    /\ idx' = idx + 1
    /\ UNCHANGED <<keys, vals, overwriteExisting, cdirs, cidx, routeVars>>

\* deleteFile(file) called on its own, whatever is on disk
DeleteFileCall ==
    /\ last.op = "none"
    /\ \E file \in DeleteTargets :
          LET r == DeleteFile(dirs, files, file)
          IN  /\ dirs' = r.dirs
              /\ files' = r.files
              /\ last' = [op |-> "deleteFile", i |-> 0, file |-> file,
                          result |-> IF r.err = "none" THEN "deleted" ELSE r.err]
              /\ status' = Advance(r, TRUE)
    /\ preDirs' = dirs
    /\ preFiles' = files
    /\ UNCHANGED <<keys, vals, overwriteExisting, idx, cdirs, cidx, routeVars>>

\* the trailing task: it builds the sub-list of cleanupEmptyDirsTask
CleanupTask ==
    /\ status = "running"
    /\ idx = Len(keys) + 1
    /\ cidx = 0
    /\ cdirs' = UniqueDirs(keys)
    /\ cidx' = 1
    /\ last' = [op |-> "cleanupStart", i |-> 0, file |-> <<>>, result |-> "none"]
    /\ preDirs' = dirs
    /\ preFiles' = files
    /\ UNCHANGED <<dirs, files, keys, vals, overwriteExisting, idx, status,
                   routeVars>>

\* a cleanup sub-task: skipped with a reason, else rmdirSync
CleanupDirTask ==
    /\ status = "running"
    /\ cidx >= 1
    /\ cidx <= Len(cdirs)
    /\ LET dir == cdirs[cidx]
           skip == CleanupSkip(dirs, files, dir)
           r == IF skip = "ENOTDIR" THEN Throw(dirs, files, skip)
                ELSE IF skip # "false" THEN Ok(dirs, files)
                ELSE RmdirSync(dirs, files, dir)
       IN  /\ dirs' = r.dirs
           /\ files' = r.files
           /\ last' = [op |-> "cleanup", i |-> cidx, file |-> dir,
                       result |-> IF r.err # "none" THEN r.err
                                  ELSE IF skip # "false" THEN skip
                                  ELSE "removed"]
           /\ status' = Advance(r, cidx = Len(cdirs))
    /\ preDirs' = dirs
    /\ preFiles' = files
    /\ cidx' = cidx + 1
    /\ UNCHANGED <<keys, vals, overwriteExisting, idx, cdirs, routeVars>>

NextDelete == DeleteTask \/ DeleteFileCall \/ CleanupTask \/ CleanupDirTask

SpecDelete == InitDelete /\ [][NextDelete]_vars

(***************************************************************************)
(* Properties of the write and delete task lists                           *)
(***************************************************************************)
EndsWith(p, suf) ==
    Len(p) >= Len(suf) /\ SubSeq(p, Len(p) - Len(suf) + 1, Len(p)) = suf

SourceSuffixes == {<<".", "j", "s">>, <<".", "t", "s">>, <<".", "t", "s", "x">>}

IsSource(p) == \E suf \in SourceSuffixes : EndsWith(p, suf)

\* the path without its .js, .ts or .tsx
Stem(p) ==
    LET suf == CHOOSE x \in SourceSuffixes : EndsWith(p, x)
    IN  SubSeq(p, 1, Len(p) - Len(suf))

Variants(p) == {Resolve(Stem(p) \o suf) : suf \in SourceSuffixes}

LastKey == Resolve(last.file)

\* the target of the last write could be written: no directory of its path
\* is a file and it is no directory itself
Writable == Chain(Parent(LastKey)) \cap DOMAIN preFiles = {} /\ LastKey \notin preDirs

SameContents(ks) == \A k \in ks : k \in DOMAIN preFiles /\ files[k] = preFiles[k]

\* C1: a write of a target that exists, without overwriteExisting, fails
\* with the 'already exists' error and leaves the file system as it was
C1_ExistingTargetUntouched ==
    (last.op = "write" /\ ~overwriteExisting /\ LastKey \in DOMAIN preFiles)
        => /\ last.result = "AlreadyExists"
           /\ status = "failed"
           /\ dirs = preDirs
           /\ files = preFiles

C1_Witness ==
    /\ last.op = "write"
    /\ ~overwriteExisting
    /\ LastKey \in DOMAIN preFiles
    /\ last.result = "AlreadyExists"
    /\ files[LastKey] = "old"

\* C2: a write of a target that does not exist, or with overwriteExisting,
\* creates the target's directories and leaves the target holding exactly
\* the given contents
C2_WriteCreatesTarget ==
    (/\ last.op = "write"
     /\ overwriteExisting \/ LastKey \notin DOMAIN preFiles
     /\ Writable)
        => /\ last.result = "written"
           /\ Chain(Parent(LastKey)) \subseteq dirs
           /\ LastKey \in DOMAIN files
           /\ files[LastKey] = vals[last.i]

\* C6: deleteFile of a .js, .ts or .tsx path removes every variant that
\* exists and no other file; of another path it removes that path only
C6_DeleteRemovesVariants ==
    (last.op = "deleteFile" \/ (last.op = "delete" /\ last.result # "skipped"))
        => /\ last.op = "delete" \/ IsSource(last.file) => last.result = "deleted"
           /\ dirs = preDirs
           /\ DOMAIN files = DOMAIN preFiles \
                 (IF IsSource(last.file) THEN Variants(last.file) ELSE {LastKey})
           /\ SameContents(DOMAIN files)

C6_Witness ==
    /\ last.op = "deleteFile"
    /\ last.result = "deleted"
    /\ IsSource(last.file)
    /\ Cardinality(Variants(last.file) \cap DOMAIN preFiles) >= 2
    /\ Variants(last.file) \cap DOMAIN files = {}

\* C7: a per-file delete task is skipped exactly when no variant of a
\* .js, .ts or .tsx path exists, or when a path of another kind is absent
C7_SkipIffNoVariant ==
    last.op = "delete"
        => (last.result = "skipped"
              <=> ~(IF IsSource(last.file)
                    THEN Variants(last.file) \cap DOMAIN preFiles # {}
                    ELSE LastKey \in DOMAIN preFiles))

C7_Witness ==
    /\ last.op = "delete"
    /\ last.result = "deleted"
    /\ last.file = <<"d", "/", "x", ".", "t", "s">>
    /\ LastKey \notin DOMAIN preFiles
    /\ Resolve(<<"d", "/", "x", ".", "j", "s">>) \in DOMAIN preFiles

\* C8: the cleanup starts after every per-file task; it removes a directory
\* only if it exists and is empty, skips an absent one with "Doesn't exist"
\* and one with entries with "Not empty", and removes nothing else
C8_CleanupAfterDeletesOnlyEmpty ==
    /\ last.op \in {"cleanupStart", "cleanup"} => idx = Len(keys) + 1
    /\ last.op = "cleanupStart" => dirs = preDirs /\ files = preFiles
    /\ last.op = "cleanup"
          => LET existed == LastKey \in preDirs
                 empty == Entries(preDirs, preFiles, LastKey) = {}
             IN  /\ LastKey \in {Parent(Resolve(keys[i])) : i \in 1..Len(keys)}
                 /\ files = preFiles
                 /\ last.result = "Doesn't exist" <=> ~existed
                 /\ last.result = "Not empty" <=> existed /\ ~empty
                 /\ last.result = "removed" <=> existed /\ empty
                 /\ dirs = IF existed /\ empty THEN preDirs \ {LastKey} ELSE preDirs

C8_Witness ==
    /\ last.op = "cleanup"
    /\ last.result = "removed"
    /\ LastKey \notin dirs
    /\ \E i \in 1..Len(cdirs) : i < cidx - 1 /\ Resolve(cdirs[i]) \in dirs

Whitespace == {" ", "\n"}

\* the lexemes in which the character > occurs
WithGt == {"<Router>", "</Router>", "<Fragment>", "/>", ">"}

RouteNames == {"a", "b", "c"}

NameAttr(n) ==
    CASE n = "a" -> "name=\"a\""
      [] n = "b" -> "name=\"b\""
      [] n = "c" -> "name=\"c\""
      [] OTHER -> "name=\"z\""

PathAttr(n) ==
    CASE n = "a" -> "path=\"/a\""
      [] n = "b" -> "path=\"/b\""
      [] n = "c" -> "path=\"/c\""
      [] OTHER -> "path=\"/z\""

\* <Route path="/n" name="n" />
RouteDecl(n) == <<"<Route", " ", PathAttr(n), " ", NameAttr(n), " ", "/>">>

RouteDecls == {RouteDecl(n) : n \in RouteNames}

\* where the whitespace run that ends just before position q starts
RunStart(c, q) == Min({p \in 1..q : \A i \in p..(q - 1) : c[i] \in Whitespace})

\* the callback of addRoutesToRouterTask without its includes guard
AddRouteUnguarded(c, route) ==
    LET q == IndexOf(c, <<"<Router>">>)
        p == RunStart(c, q)
        ws == SubSeq(c, p, q - 1)
    IN  IF q = 0 THEN c
        ELSE SubSeq(c, 1, p - 1) \o ws \o <<"<Router>">> \o ws \o <<" ", " ">>
                \o route \o SubSeq(c, q + 1, Len(c))

\* the callback of addRoutesToRouterTask:
\* content.replace(/(\s*)\<Router\>/, `$1<Router>$1  ${route}`), the match
\* being the first <Router> with the whitespace run before it
AddRoute(c, route) ==
    IF Includes(c, route) THEN c
    ELSE LET q == IndexOf(c, <<"<Router>">>)
             p == RunStart(c, q)
             ws == SubSeq(c, p, q - 1)
         IN  IF q = 0 THEN c
             ELSE SubSeq(c, 1, p - 1) \o ws \o <<"<Router>">> \o ws
                     \o <<" ", " ">> \o route \o SubSeq(c, q + 1, Len(c))

\* reduce, from the left
RECURSIVE AddAll(_, _)
AddAll(c, rs) == IF rs = <<>> THEN c ELSE AddAll(AddRoute(c, Head(rs)), Tail(rs))

\* addRoutesToRouterTask forgetting to reverse
AddRoutesInOrder(c, rs) == AddAll(c, rs)

\* addRoutesToRouterTask: the new content of the routes file
AddRoutesToRouter(c, rs) == AddAll(c, Reverse(rs))

\* the matches of /\s*<Route[^>]*name="route"[^>]*\/>/ in c, as <<q, j>>:
\* <Route at q, the name attribute before any >, and the first lexeme with
\* a > after it being /> at j
RouteMatches(c, route) ==
    {m \in (1..Len(c)) \X (1..Len(c)) :
        /\ c[m[1]] = "<Route"
        /\ c[m[2]] = "/>"
        /\ \E i \in (m[1] + 1)..(m[2] - 1) :
              /\ c[i] = NameAttr(route)
              /\ \A x \in (m[1] + 1)..(m[2] - 1) : c[x] \notin WithGt}

\* the callback of removeRoutesFromRouterTask: content.replace(re, ''), the
\* leftmost match with the whitespace run before it
RemoveRoute(c, route) ==
    LET ms == RouteMatches(c, route)
        q == Min({m[1] : m \in ms})
        j == Min({m[2] : m \in {x \in ms : x[1] = q}})
    IN  IF ms = {} THEN c
        ELSE SubSeq(c, 1, RunStart(c, q) - 1) \o SubSeq(c, j + 1, Len(c))

\* removeRoutesFromRouterTask: the new content of the routes file
RECURSIVE RemoveRoutesFromRouter(_, _)
RemoveRoutesFromRouter(c, rs) ==
    IF rs = <<>> THEN c
    ELSE RemoveRoutesFromRouter(RemoveRoute(c, Head(rs)), Tail(rs))

\* the names removeRoutes may be given: z names no route
RemoveNames == {"a", "b", "z"}

\* what comes before the routes: nothing, an import line, or an import line
\* and an indented <Router>
Leads == { <<>>, <<"import", "\n">>, <<"import", "\n", " ", " ">> }

\* a routes file: lead, <Router> (or a fragment without it), the old routes
\* one per line, some after a blank line, and </Router>
RoutesFile(lead, open, old, blank) ==
    lead \o open
         \o Concat([i \in 1..Len(old) |->
                (IF blank[i] THEN <<"\n">> ELSE <<>>)
                    \o <<"\n", " ", " ">> \o RouteDecl(old[i])])
         \o <<"\n", "</Router>", "\n">>

InitRoutes ==
    /\ \E lead \in Leads, open \in {<<"<Router>">>, <<"<Fragment>">>},
          old \in DistinctSeqs(RouteNames, 0, MaxOld) :
          \E blank \in [1..Len(old) -> BOOLEAN] :
             content = RoutesFile(lead, open, old, blank)
    /\ preContent = content
    /\ arr = <<>>
    /\ given = <<>>
    /\ lastOp = "none"
    /\ dirs = {}
    /\ files = <<>>
    /\ preDirs = {}
    /\ preFiles = <<>>
    /\ keys = <<>>
    /\ vals = <<>>
    /\ overwriteExisting = TRUE
    /\ idx = 0
    /\ status = "none"
    /\ last = NoLast
    /\ cdirs = <<>>
    /\ cidx = 0

\* addRoutesToRouterTask(routes) with a new array
AddRoutes ==
    /\ lastOp = "none"
    /\ \E rs \in DistinctSeqs(RouteDecls, 1, MaxRoutes) :
          /\ content' = AddRoutesToRouter(content, rs)
          /\ given' = rs
          /\ arr' = Reverse(rs)
    /\ preContent' = content
    /\ lastOp' = "add"
    /\ UNCHANGED <<fsVars, runVars>>

\* addRoutesToRouterTask(routes) again, with the array of the last call
AddRoutesAgain ==
    /\ lastOp \in {"add", "addAgain", "addEqual"}
    /\ content' = AddRoutesToRouter(content, arr)
    /\ given' = arr
    /\ arr' = Reverse(arr)
    /\ preContent' = content
    /\ lastOp' = "addAgain"
    /\ UNCHANGED <<fsVars, runVars>>

\* addRoutesToRouterTask(routes) again, with an array equal to the one given
\* to the last call
AddRoutesEqual ==
    /\ lastOp \in {"add", "addAgain", "addEqual"}
    /\ content' = AddRoutesToRouter(content, given)
    /\ arr' = Reverse(given)
    /\ preContent' = content
    /\ lastOp' = "addEqual"
    /\ UNCHANGED <<given, fsVars, runVars>>

\* removeRoutesFromRouterTask(routes)
RemoveRoutes ==
    /\ lastOp = "none"
    /\ \E ns \in DistinctSeqs(RemoveNames, 1, MaxRoutes) :
          /\ content' = RemoveRoutesFromRouter(content, ns)
          /\ given' = ns
    /\ preContent' = content
    /\ lastOp' = "remove"
    /\ UNCHANGED <<arr, fsVars, runVars>>

NextRoutes == AddRoutes \/ AddRoutesAgain \/ AddRoutesEqual \/ RemoveRoutes

SpecRoutes == InitRoutes /\ [][NextRoutes]_vars

(***************************************************************************)
(* Properties of the routes file patchers                                  *)
(***************************************************************************)
AddOps == {"add", "addAgain", "addEqual"}

HasRouter(c) == Includes(c, <<"<Router>">>)

\* given[i] stands before given[j] in the routes file whenever i < j
InGivenOrder ==
    \A i, j \in 1..Len(given) :
        i < j => /\ Includes(content, given[i])
                 /\ Includes(content, given[j])
                 /\ IndexOf(content, given[i]) < IndexOf(content, given[j])

NoneThere == \A i \in 1..Len(given) : ~Includes(preContent, given[i])

\* C3, as claimed: whichever of the routes were already in the file, the
\* routes stand in the file in the order they were given in
C3_OrderPreservedAlways == (lastOp \in AddOps /\ HasRouter(preContent)) => InGivenOrder

\* C3, amended: when none of the routes was in the file, the routes stand in
\* the file in the order they were given in
C3_OrderPreservedWhenNew ==
    (lastOp \in AddOps /\ HasRouter(preContent) /\ NoneThere) => InGivenOrder

C3_Witness ==
    /\ lastOp = "add"
    /\ HasRouter(preContent)
    /\ NoneThere
    /\ Len(given) >= 2
    /\ Includes(preContent, <<"<Route">>)
    /\ content # preContent

\* C4: a second call with the same routes leaves the routes file as it is,
\* and a route whose text is in the file is not inserted again
C4_AddIsIdempotent ==
    /\ lastOp \in {"addAgain", "addEqual"} => content = preContent
    /\ lastOp \in AddOps
          => \A i \in 1..Len(given) :
                Includes(preContent, given[i])
                    => Occurrences(content, given[i]) # {}
                       /\ Cardinality(Occurrences(content, given[i]))
                            = Cardinality(Occurrences(preContent, given[i]))

\* the second call came after a first one that inserted a route
C4_Witness ==
    /\ lastOp = "addAgain"
    /\ Len(given) >= 2
    /\ content = preContent
    /\ \E i \in 1..Len(given), lead \in {<<"<Router>">>, <<"<Router>", "\n">>} :
          Includes(content, lead \o <<" ", " ">> \o given[i])

\* the lines of the routes file
RECURSIVE Lines(_)
Lines(c) ==
    LET nl == {i \in 1..Len(c) : c[i] = "\n"}
    IN  IF nl = {} THEN <<c>>
        ELSE <<SubSeq(c, 1, Min(nl) - 1)>> \o Lines(SubSeq(c, Min(nl) + 1, Len(c)))

\* the line holds a self-closing Route element of that name
HoldsRoute(line, n) ==
    /\ "<Route" \in Range(line)
    /\ NameAttr(n) \in Range(line)
    /\ "/>" \in Range(line)

\* the lines without the first one that holds a Route element of that name
DropRouteLine(ls, n) ==
    LET hits == {i \in 1..Len(ls) : HoldsRoute(ls[i], n)}
    IN  IF hits = {} THEN ls
        ELSE SubSeq(ls, 1, Min(hits) - 1) \o SubSeq(ls, Min(hits) + 1, Len(ls))

RECURSIVE DropRouteLines(_, _)
DropRouteLines(ls, ns) ==
    IF ns = <<>> THEN ls ELSE DropRouteLines(DropRouteLine(ls, Head(ns)), Tail(ns))

\* C5: removeRoutes removes, for each name, the first Route element of that
\* name and leaves every other line, blank ones included, as it was; a name
\* of no route changes nothing
C5_RemoveKeepsOtherLines ==
    lastOp = "remove" => Lines(content) = DropRouteLines(Lines(preContent), given)

====
